---- MODULE Spec2Model ----
(***************************************************************************)
(* Ingestion-and-forwarding pipeline of the Reddit -> Telegram forwarder.  *)
(*                                                                         *)
(* The record store (src/src/database/models.py) is modelled table by      *)
(* table; every Database method is one atomic store operation (SQLite      *)
(* serialises the statements of a connection and commits at the end) that  *)
(* may also fail, in which case the method's except branch decides the     *)
(* result.  The coroutines of src/src/bot.py and                           *)
(* src/src/handlers/commands.py are cut at their await points: a check     *)
(* pass (scheduler loop or the immediate check after rule authoring) and   *)
(* every decision callback is a process that other processes interleave    *)
(* with between two awaits.                                                *)
(* Decision callbacks may overlap one another (the dispatcher's concurrent  *)
(* mode); under its sequential default only a check pass and a callback    *)
(* overlap.  The callbacks themselves take no lock and hold no             *)
(* transaction across their awaits.                                        *)
(*                                                                         *)
(* Time: `now` counts whole hours of UTC (rule frequencies are hours) and   *)
(* `tz` is the UTC offset of the host's local clock: the store stamps      *)
(* last_check in UTC, the scheduler compares it with local time.  The      *)
(* one-minute window that add_post reads back is the set `recent` of post  *)
(* ids whose scraped_at is less than a minute old.                         *)
(*                                                                         *)
(* The specifications share the actions.  Spec is the whole system.        *)
(* SpecIngest is the system while no decision is submitted (rule           *)
(* authoring, scheduler tick, immediate check).  SpecDecide is the system  *)
(* while no check pass runs: it starts in the store states that ingestion  *)
(* leaves behind (each of them is a state SpecIngest reaches, see          *)
(* IngestLeaves) and handles decisions and rule deletions.  SpecRules is   *)
(* rule authoring by two admins with two frequencies, SpecOwners adds rule *)
(* deletion to it, and SpecPass is one immediate check over a feed of two  *)
(* posts.  SpecLoop is the scheduler loop alone, with the exceptions that  *)
(* can reach it and its cancellation, under weak fairness of its own       *)
(* steps.  SpecBoot is main() from the environment to the started bot.     *)
(* SpecResolve is the media resolver (src/src/reddit_scraper.py) working   *)
(* on one submission: listing and media_type, then download_media with     *)
(* every answer the network, yt-dlp and HandBrake can give.                *)
(* SpecAuthor is the rule-authoring chat of handlers/commands.py: texts    *)
(* and button presses in any order, then _create_rule and its immediate    *)
(* check.  SpecAdmit is handle_callback_query for decisions and rule       *)
(* deletions submitted by users on and off the admin list.                 *)
(***************************************************************************)
EXTENDS Integers, Sequences, FiniteSets, TLC

\* ------------------------------------------------------------------ bounds
NumPosts == 1
MaxRules == 2
NumDecisions == 2
MaxMessages == 2
MaxTime == 1
MaxFaults == 1
MaxGalleryItems == 2
MaxAuthored == 1

\* ------------------------------------------------------- program constants
MaxPostsPerCheck == 10
MinFrequency == 1
MaxFrequency == 168
PiCeiling == 120
Ceiling == 600

\* ------------------------------------------------------------ input sets
Posts == 1..NumPosts
Decisions == 1..NumDecisions
Passes == {"tick", "immediate"}
Admins == {"admin1"}
Subreddits == {"pics"}
SortTypes == {"hot", "new"}
Channels == {"@channel"}
Frequencies == {MinFrequency}
MediaTypes == {"image", "video", "gallery"}
DecisionKinds == {"approve", "reject"}

UtcOffsets == {0, 1}

NoCheck == -1
NoPath == <<>>
PathOf(p) == <<"temp", p>>

VARIABLES
    posts,            \* table posts: id -> row
    recent,           \* ids whose scraped_at > now - 1 minute
    rules,            \* table forwarder_rules: id -> row
    next_rule_id,     \* AUTOINCREMENT of forwarder_rules
    pending,          \* table pending_approvals
    approved,         \* table approved_posts
    files,            \* files present in the temp directory
    media,            \* media_type of each post descriptor of the feed
    approval_msgs,    \* approval messages delivered to admins
    channel_msgs,     \* messages forwarded to target channels
    now,              \* clock, whole hours UTC
    tz,               \* UTC offset of the host's local time, hours
    faults,           \* store operations that have failed so far
    ppc, prules, prule, pposts, pfile, psent,   \* check passes
    dpc, dkind, dmsg, ddata, dreport,           \* decision callbacks
    environ,          \* environment variables the configuration is read from
    bpc,              \* position of main()
    host,             \* tools and settings of the host the resolver runs on
    item,             \* the submission the resolver is working on
    rpc,              \* position of scrape_subreddit / download_media
    rtype,            \* media_type of the post descriptor
    rurl,             \* download_url of download_media
    rfile,            \* file_path of download_media
    calls,            \* requests and tool runs of the resolver, in order
    result,           \* what download_media returned
    session,          \* context.user_data['rule_creation'] of each user
    reply             \* the bot's latest answer to each user

storeVars == <<posts, recent, rules, next_rule_id, pending, approved>>
bootVars == <<environ, bpc>>
resVars == <<host, item, rpc, rtype, rurl, rfile, calls, result>>
chatVars == <<session, reply>>
worldVars == <<files, media, approval_msgs, channel_msgs, now, tz, bootVars,
               resVars, chatVars>>
passVars == <<ppc, prules, prule, pposts, pfile, psent>>
decVars == <<dpc, dkind, dmsg, ddata, dreport>>
vars == <<storeVars, worldVars, faults, passVars, decVars>>

\* ------------------------------------------------------------ record store

\* INSERT OR IGNORE INTO posts: status defaults to 'pending', admin_id NULL
add_post_rows(tbl, p, mtype, fpath) ==
    IF p \in DOMAIN tbl THEN tbl
    ELSE tbl @@ (p :> [media_type |-> mtype, file_path |-> fpath,
                        status |-> "pending", admin_id |-> "NULL"])

\* the read-back add_post returns: COUNT(*) WHERE id = ? AND scraped_at >
\* datetime('now', '-1 minute'), evaluated on the table after the insert
add_post_result(tbl, rec, p) == p \in DOMAIN tbl /\ p \in rec

\* post_exists that overlooks the rows registered without a file
post_exists_with_file(p) == p \in DOMAIN posts /\ posts[p].file_path # NoPath

\* SELECT 1 FROM posts WHERE id = ?
post_exists(p) == p \in DOMAIN posts

RuleKey(r) == <<r.admin_id, r.subreddit, r.sort_type, r.target_channel>>

\* add_forwarder_rule with a plain INSERT in place of INSERT OR REPLACE
add_forwarder_rule_appends(admin, sub, sort, tf, freq, chan) ==
    rules @@ (next_rule_id :>
        [id |-> next_rule_id, admin_id |-> admin, subreddit |-> sub,
         sort_type |-> sort, time_filter |-> tf, frequency_hours |-> freq,
         target_channel |-> chan, active |-> TRUE, last_check |-> NoCheck])

\* INSERT OR REPLACE INTO forwarder_rules: the row holding the same UNIQUE
\* key is deleted, the new row takes the next AUTOINCREMENT id, active
\* defaults to 1, created_at to now and last_check to NULL
add_forwarder_rule(admin, sub, sort, tf, freq, chan) ==
    LET new == [id |-> next_rule_id, admin_id |-> admin, subreddit |-> sub,
                sort_type |-> sort, time_filter |-> tf,
                frequency_hours |-> freq, target_channel |-> chan,
                active |-> TRUE, last_check |-> NoCheck]
        kept == {i \in DOMAIN rules : RuleKey(rules[i]) # RuleKey(new)}
    IN  [i \in kept \cup {next_rule_id} |->
            IF i = next_rule_id THEN new ELSE rules[i]]

RECURSIVE SortedIds(_)
SortedIds(S) ==
    IF S = {} THEN <<>>
    ELSE LET m == CHOOSE x \in S : \A y \in S : x <= y
         IN  <<m>> \o SortedIds(S \ {m})

\* SELECT * FROM forwarder_rules WHERE active = 1 ORDER BY created_at
\* (created_at is the insertion time and ids are handed out in insertion
\* order, so the rows come in id order; the column itself is not kept)
get_active_rules ==
    LET ids == SortedIds({i \in DOMAIN rules : rules[i].active})
    IN  [k \in 1..Len(ids) |-> rules[ids[k]]]

get_rule_by_id(tbl, i) == IF i \in DOMAIN tbl THEN <<tbl[i]>> ELSE <<>>

\* an update that writes nothing
update_rule_last_check_noop(i) == rules

\* UPDATE forwarder_rules SET last_check = CURRENT_TIMESTAMP WHERE id = ?
update_rule_last_check(i) ==
    IF i \in DOMAIN rules THEN [rules EXCEPT ![i].last_check = now] ELSE rules

\* INSERT INTO pending_approvals (no UNIQUE constraint on the table)
add_pending_approval(p, admin, rid, mid) ==
    pending \cup {[post_id |-> p, admin_id |-> admin, rule_id |-> rid,
                   message_id |-> mid]}

\* SELECT pa.*, p.*, fr.target_channel FROM pending_approvals pa
\* JOIN posts p JOIN forwarder_rules fr WHERE pa.message_id = ?
get_pending_approval_rows(mid) ==
    {[post_id |-> pa.post_id, rule_id |-> pa.rule_id,
      message_id |-> pa.message_id,
      file_path |-> posts[pa.post_id].file_path,
      media_type |-> posts[pa.post_id].media_type,
      target_channel |-> rules[pa.rule_id].target_channel] :
        pa \in {x \in pending : /\ x.message_id = mid
                                /\ x.post_id \in DOMAIN posts
                                /\ x.rule_id \in DOMAIN rules}}

\* approve_post without its DELETE FROM pending_approvals
approve_post_keeps_pending(p, admin, rid, chan, fwd) ==
    [approved |-> approved \cup {[post_id |-> p, admin_id |-> admin,
                                  rule_id |-> rid, target_channel |-> chan,
                                  forwarded_message_id |-> fwd]},
     posts |-> IF p \in DOMAIN posts
               THEN [posts EXCEPT ![p].status = "approved",
                                  ![p].admin_id = admin]
               ELSE posts,
     pending |-> pending]

\* approve_post without its UPDATE posts SET status
approve_post_keeps_status(p, admin, rid, chan, fwd) ==
    [approved |-> approved \cup {[post_id |-> p, admin_id |-> admin,
                                  rule_id |-> rid, target_channel |-> chan,
                                  forwarded_message_id |-> fwd]},
     posts |-> posts,
     pending |-> {x \in pending : ~(/\ x.post_id = p /\ x.admin_id = admin
                                    /\ x.rule_id = rid)}]

\* approve_post: INSERT INTO approved_posts; UPDATE posts SET status;
\* DELETE FROM pending_approvals WHERE post_id, admin_id, rule_id; commit
approve_post(p, admin, rid, chan, fwd) ==
    [approved |-> approved \cup {[post_id |-> p, admin_id |-> admin,
                                  rule_id |-> rid, target_channel |-> chan,
                                  forwarded_message_id |-> fwd]},
     posts |-> IF p \in DOMAIN posts
               THEN [posts EXCEPT ![p].status = "approved",
                                  ![p].admin_id = admin]
               ELSE posts,
     pending |-> {x \in pending : ~(/\ x.post_id = p /\ x.admin_id = admin
                                    /\ x.rule_id = rid)}]

\* reject_post without its DELETE FROM pending_approvals
reject_post_keeps_pending(p, admin, rid) ==
    [posts |-> IF p \in DOMAIN posts
               THEN [posts EXCEPT ![p].status = "rejected",
                                  ![p].admin_id = admin]
               ELSE posts,
     pending |-> pending]

\* reject_post: UPDATE posts SET status; DELETE FROM pending_approvals
reject_post(p, admin, rid) ==
    [posts |-> IF p \in DOMAIN posts
               THEN [posts EXCEPT ![p].status = "rejected",
                                  ![p].admin_id = admin]
               ELSE posts,
     pending |-> {x \in pending : ~(/\ x.post_id = p /\ x.admin_id = admin
                                    /\ x.rule_id = rid)}]

\* delete_rule without "AND admin_id = ?"
delete_rule_any_owner(i, admin) ==
    [j \in {k \in DOMAIN rules : k # i} |-> rules[j]]

\* DELETE FROM forwarder_rules WHERE id = ? AND admin_id = ?
delete_rule(i, admin) ==
    [j \in {k \in DOMAIN rules : ~(k = i /\ rules[k].admin_id = admin)} |->
        rules[j]]

\* the result of delete_rule: cursor.rowcount > 0
delete_rule_result(i, admin) ==
    Cardinality(DOMAIN rules) - Cardinality(DOMAIN delete_rule(i, admin)) > 0

\* ------------------------------------------------------------- scheduling

\* _should_check_rule: never checked, or datetime.now(), the host's local
\* time, has reached last_check + frequency; last_check is the UTC text that
\* CURRENT_TIMESTAMP stored, read back as a naive datetime
_should_check_rule(rule) ==
    \/ rule.last_check = NoCheck
    \/ now + tz >= rule.last_check + rule.frequency_hours

\* the media posts of a feed: one feed holds a post more than the others
BusyFeed == "aww"
Feed(sub) == IF sub = BusyFeed THEN 1..(NumPosts + 1) ELSE Posts

RECURSIVE Perms(_)
Perms(S) ==
    IF S = {} THEN {<<>>}
    ELSE UNION {{<<x>> \o q : q \in Perms(S \ {x})} : x \in S}

\* what the content source can list for a feed: any selection of the feed's
\* media posts, in any order, at most max_posts_per_check of them
Listings(sub) ==
    {l \in UNION {Perms(S) : S \in SUBSET Feed(sub)} :
        Len(l) <= MaxPostsPerCheck}

NoRule == [id |-> 0, admin_id |-> "NULL"]
NoData == [post_id |-> 0, rule_id |-> 0, message_id |-> 0,
           file_path |-> NoPath, media_type |-> "NULL",
           target_channel |-> "NULL", actor |-> "NULL", forwarded |-> 0]

\* a store operation succeeds, or raises into its except branch (at most
\* MaxFaults times in a behaviour)
Outcomes == IF faults < MaxFaults THEN BOOLEAN ELSE {TRUE}
Fault(ok) == faults' = IF ok THEN faults ELSE faults + 1

\* the process has started with a complete configuration
EnvValues == {"unset", "", "set"}
IntValues == {"unset", "", "5", "abc"}
FullEnviron == [token |-> "set", client_id |-> "set", client_secret |-> "set",
                interval |-> "unset"]
Started ==
    /\ environ = FullEnviron
    /\ bpc = "running"

\* no submission is being resolved
NoItem == [id |-> 0]
PlainHost == [ytdlp |-> TRUE, handbrake |-> TRUE, raspberry_pi_mode |-> FALSE]
ResolverIdle ==
    /\ host = PlainHost
    /\ item = NoItem
    /\ rpc = "idle"
    /\ rtype = "none"
    /\ rurl = <<>>
    /\ rfile = NoPath
    /\ calls = <<>>
    /\ result = NoPath

\* the users that write to the bot: one listed in admins.txt by id, one
\* listed by "@username", one not listed
Users == {[id |-> "admin1", username |-> "NULL"],
          [id |-> "admin2", username |-> "alice"],
          [id |-> "guest", username |-> "eve"]}
UserIds == {u.id : u \in Users}

\* a field of the session dict that has no key yet
Unset == "NULL"
NoFrequency == 0

\* 'rule_creation' not in context.user_data
NoSession == [step |-> "none", subreddit |-> Unset, sort_type |-> Unset,
              time_filter |-> Unset, frequency_hours |-> NoFrequency,
              target_channel |-> Unset]

\* nobody is authoring a rule
ChatIdle ==
    /\ session = [i \in UserIds |-> NoSession]
    /\ reply = [i \in UserIds |-> "none"]

\* no check pass and no decision callback is running
IdlePasses ==
    /\ ChatIdle
    /\ ppc = [c \in Passes |-> "idle"]
    /\ prules = [c \in Passes |-> <<>>]
    /\ prule = [c \in Passes |-> NoRule]
    /\ pposts = [c \in Passes |-> <<>>]
    /\ pfile = [c \in Passes |-> NoPath]
    /\ psent = [c \in Passes |-> 0]
    /\ dpc = [d \in Decisions |-> "idle"]
    /\ dkind = [d \in Decisions |-> "none"]
    /\ dmsg = [d \in Decisions |-> 0]
    /\ ddata = [d \in Decisions |-> NoData]
    /\ dreport = [d \in Decisions |-> "none"]

IdleProcesses ==
    /\ Started
    /\ ResolverIdle
    /\ IdlePasses

Init ==
    /\ posts = <<>>
    /\ recent = {}
    /\ rules = <<>>
    /\ next_rule_id = 1
    /\ pending = {}
    /\ approved = {}
    /\ files = {}
    /\ media \in [Posts -> MediaTypes]
    /\ approval_msgs = {}
    /\ channel_msgs = {}
    /\ now = 0
    /\ tz \in UtcOffsets
    /\ faults = 0
    /\ IdleProcesses

\* a minute goes by within the hour: no scraped_at is recent any more
MinutePasses ==
    /\ recent # {}
    /\ recent' = {}
    /\ UNCHANGED <<posts, rules, next_rule_id, pending, approved, worldVars,
                   faults, passVars, decVars>>

\* an hour goes by
HourPasses ==
    /\ now < MaxTime
    /\ now' = now + 1
    /\ recent' = {}
    /\ UNCHANGED <<posts, rules, next_rule_id, pending, approved, files,
                   media, tz, bootVars, chatVars, resVars, approval_msgs,
                   channel_msgs,
                   faults, passVars,
                   decVars>>

\* a loop that starts a tick although it has ended
TickStart_after_exit ==
    /\ bpc = "running"
    /\ ppc["tick"] \in {"idle", "exited"}
    /\ \E ok \in Outcomes :
          LET rs == IF ok THEN get_active_rules ELSE <<>>
          IN  /\ prules' = [prules EXCEPT !["tick"] = rs]
              /\ ppc' = [ppc EXCEPT !["tick"] =
                            IF rs = <<>> THEN "idle" ELSE "rules"]
              /\ Fault(ok)
    /\ UNCHANGED <<storeVars, worldVars, prule, pposts, pfile, psent, decVars>>

\* _scraper_loop / _check_all_rules: the sleep ends, the active rules are
\* read (an unavailable store yields no rules)
TickStart ==
    /\ bpc = "running"
    /\ ppc["tick"] = "idle"
    /\ \E ok \in Outcomes :
          LET rs == IF ok THEN get_active_rules ELSE <<>>
          IN  /\ prules' = [prules EXCEPT !["tick"] = rs]
              /\ ppc' = [ppc EXCEPT !["tick"] =
                            IF rs = <<>> THEN "idle" ELSE "rules"]
              /\ Fault(ok)
    /\ UNCHANGED <<storeVars, worldVars, prule, pposts, pfile, psent, decVars>>

\* _create_rule: add_forwarder_rule, then the immediate check is started
CreateRule(admin, sub, sort, freq, chan) ==
    /\ bpc = "running"
    /\ ppc["immediate"] = "idle"
    /\ next_rule_id <= MaxRules
    /\ \E ok \in Outcomes :
          /\ Fault(ok)
          /\ IF ok
             THEN /\ rules' = add_forwarder_rule(admin, sub, sort, "day", freq,
                                                 chan)
                  /\ next_rule_id' = next_rule_id + 1
                  /\ prule' = [prule EXCEPT !["immediate"] =
                                  [id |-> next_rule_id, admin_id |-> admin]]
                  /\ ppc' = [ppc EXCEPT !["immediate"] = "fetch"]
             ELSE UNCHANGED <<rules, next_rule_id, prule, ppc>>
    /\ UNCHANGED <<posts, recent, pending, approved, worldVars, prules, pposts,
                   pfile, psent, decVars>>

\* _execute_rule_immediately: get_rule_by_id, then _check_rule on that row
FetchRule ==
    /\ ppc["immediate"] = "fetch"
    /\ \E ok \in Outcomes :
          LET rs == IF ok THEN get_rule_by_id(rules, prule["immediate"].id)
                    ELSE <<>>
          IN  /\ prules' = [prules EXCEPT !["immediate"] = rs]
              /\ ppc' = [ppc EXCEPT !["immediate"] =
                            IF rs = <<>> THEN "idle" ELSE "rules"]
              /\ prule' = [prule EXCEPT !["immediate"] = NoRule]
              /\ Fault(ok)
    /\ UNCHANGED <<storeVars, worldVars, pposts, pfile, psent, decVars>>

\* _check_rule up to its first await: a rule that is not due is left alone,
\* a due rule is listed (a failing content source lists nothing)
CheckRule(c) ==
    /\ ppc[c] = "rules"
    /\ IF prules[c] = <<>>
       THEN /\ ppc' = [ppc EXCEPT ![c] = "idle"]
            /\ prule' = [prule EXCEPT ![c] = NoRule]
            /\ UNCHANGED <<prules, pposts>>
       ELSE LET rule == Head(prules[c])
            IN  /\ prules' = [prules EXCEPT ![c] = Tail(prules[c])]
                /\ IF _should_check_rule(rule)
                   THEN /\ \E l \in Listings(rule.subreddit) :
                              pposts' = [pposts EXCEPT ![c] = l]
                        /\ prule' = [prule EXCEPT ![c] =
                                        [id |-> rule.id,
                                         admin_id |-> rule.admin_id]]
                        /\ ppc' = [ppc EXCEPT ![c] = "posts"]
                   ELSE UNCHANGED <<prule, pposts, ppc>>
    /\ UNCHANGED <<storeVars, worldVars, faults, pfile, psent, decVars>>

\* a handler that lets the exception end the whole pass
RuleCheckAborts(c) ==
    /\ ppc[c] = "rules"
    /\ prules[c] # <<>>
    /\ faults < MaxFaults
    /\ faults' = faults + 1
    /\ prules' = [prules EXCEPT ![c] = <<>>]
    /\ UNCHANGED <<storeVars, worldVars, ppc, prule, pposts, pfile, psent,
                   decVars>>

\* _check_rule raises: the except of _check_all_rules (of
\* _execute_rule_immediately for the immediate check) logs the error and
\* the rule is left as it was, last_check included
RuleCheckRaises(c) ==
    /\ ppc[c] = "rules"
    /\ prules[c] # <<>>
    /\ faults < MaxFaults
    /\ faults' = faults + 1
    /\ prules' = [prules EXCEPT ![c] = Tail(prules[c])]
    /\ UNCHANGED <<storeVars, worldVars, ppc, prule, pposts, pfile, psent,
                   decVars>>

\* the loop head of _check_rule: post_exists (False when the store fails)
PostExists(c) ==
    /\ ppc[c] = "posts"
    /\ pposts[c] # <<>>
    /\ \E ok \in Outcomes :
          /\ Fault(ok)
          /\ IF ok /\ post_exists(Head(pposts[c]))
             THEN /\ pposts' = [pposts EXCEPT ![c] = Tail(pposts[c])]
                  /\ UNCHANGED ppc
             ELSE /\ ppc' = [ppc EXCEPT ![c] = "download"]
                  /\ UNCHANGED pposts
    /\ UNCHANGED <<storeVars, worldVars, prules, prule, pfile, psent, decVars>>

\* download_media: a local file, or None
Download(c) ==
    /\ ppc[c] = "download"
    /\ \E got \in BOOLEAN :
          LET f == IF got THEN PathOf(Head(pposts[c])) ELSE NoPath
          IN  /\ pfile' = [pfile EXCEPT ![c] = f]
              /\ files' = IF got THEN files \cup {f} ELSE files
    /\ ppc' = [ppc EXCEPT ![c] = "add"]
    /\ UNCHANGED <<storeVars, media, tz, bootVars, chatVars, resVars,
                   approval_msgs,
                   channel_msgs, now, faults,
                   prules, prule, pposts, psent, decVars>>

\* a loop that gives up its remaining candidates
NextPost_aborts(c) ==
    /\ ppc' = [ppc EXCEPT ![c] = "posts"]
    /\ pposts' = [pposts EXCEPT ![c] = <<>>]
    /\ pfile' = [pfile EXCEPT ![c] = NoPath]
    /\ psent' = [psent EXCEPT ![c] = 0]

\* the loop of _check_rule goes on to the next candidate
NextPost(c) ==
    /\ ppc' = [ppc EXCEPT ![c] = "posts"]
    /\ pposts' = [pposts EXCEPT ![c] = Tail(pposts[c])]
    /\ pfile' = [pfile EXCEPT ![c] = NoPath]
    /\ psent' = [psent EXCEPT ![c] = 0]

\* add_post with the file path obtained (or None); only a True result with
\* a file goes on to _send_for_approval
AddPost(c) ==
    /\ ppc[c] = "add"
    /\ LET p == Head(pposts[c]) IN
       \E ok \in Outcomes :
          LET tbl == IF ok THEN add_post_rows(posts, p, media[p], pfile[c])
                     ELSE posts
              rec == IF ok /\ p \notin DOMAIN posts THEN recent \cup {p}
                     ELSE recent
              res == ok /\ add_post_result(tbl, rec, p)
          IN  /\ posts' = tbl
              /\ recent' = rec
              /\ Fault(ok)
              /\ IF res /\ pfile[c] # NoPath
                 THEN /\ ppc' = [ppc EXCEPT ![c] = "send"]
                      /\ UNCHANGED <<pposts, pfile, psent>>
                 ELSE NextPost(c)
    /\ UNCHANGED <<rules, next_rule_id, pending, approved, worldVars, prules,
                   prule, decVars>>

\* _send_for_approval up to add_pending_approval: only image and video
\* descriptors are sent; any exception (file gone, transport) sends nothing
SendForApproval(c) ==
    /\ ppc[c] = "send"
    /\ LET p == Head(pposts[c])
           mid == Cardinality(approval_msgs) + 1
       IN
       \E sent \in BOOLEAN :
          IF /\ sent
             /\ media[p] \in {"image", "video"}
             /\ pfile[c] \in files
             /\ mid <= MaxMessages
          THEN /\ approval_msgs' = approval_msgs \cup
                     {[message_id |-> mid, chat |-> prule[c].admin_id,
                       post_id |-> p]}
               /\ psent' = [psent EXCEPT ![c] = mid]
               /\ ppc' = [ppc EXCEPT ![c] = "add_pending"]
               /\ UNCHANGED <<pposts, pfile>>
          ELSE /\ NextPost(c)
               /\ UNCHANGED approval_msgs
    /\ UNCHANGED <<storeVars, files, media, tz, bootVars, chatVars, resVars,
                   channel_msgs,
                   now, faults, prules,
                   prule, decVars>>

\* the tail of _send_for_approval: add_pending_approval (failure is logged)
AddPending(c) ==
    /\ ppc[c] = "add_pending"
    /\ \E ok \in Outcomes :
          /\ Fault(ok)
          /\ pending' = IF ok
                        THEN add_pending_approval(Head(pposts[c]),
                                 prule[c].admin_id, prule[c].id, psent[c])
                        ELSE pending
    /\ NextPost(c)
    /\ UNCHANGED <<posts, recent, rules, next_rule_id, approved, worldVars,
                   prules, prule, decVars>>

\* the end of _check_rule: update_rule_last_check (failure is logged)
TouchRule(c) ==
    /\ ppc[c] = "posts"
    /\ pposts[c] = <<>>
    /\ \E ok \in Outcomes :
          /\ Fault(ok)
          /\ rules' = IF ok THEN update_rule_last_check(prule[c].id) ELSE rules
    /\ ppc' = [ppc EXCEPT ![c] = "rules"]
    /\ prule' = [prule EXCEPT ![c] = NoRule]
    /\ UNCHANGED <<posts, recent, next_rule_id, pending, approved, worldVars,
                   prules, pposts, pfile, psent, decVars>>

\* _handle_rule_deletion: delete_rule(rule_id, query.from_user.id)
DeleteRule(i, admin) ==
    /\ i \in DOMAIN rules
    /\ \E ok \in Outcomes :
          /\ Fault(ok)
          /\ rules' = IF ok THEN delete_rule(i, admin) ELSE rules
    /\ UNCHANGED <<posts, recent, next_rule_id, pending, approved, worldVars,
                   passVars, decVars>>

\* ------------------------------------------------------ approval decisions

\* _approve_post without its os.path.exists check
file_available_unchecked(fp) == fp # NoPath

\* os.path.exists on a non-null stored path (_approve_post)
file_available(fp) == fp # NoPath /\ fp \in files

\* a callback that returns without showing its report
Finish_unreported(d, report) ==
    /\ dpc' = [dpc EXCEPT ![d] = "done"]
    /\ dreport' = dreport
    /\ ddata' = [ddata EXCEPT ![d] = NoData]

\* the callback returns: its report is shown on the approval message
Finish(d, report) ==
    /\ dpc' = [dpc EXCEPT ![d] = "done"]
    /\ dreport' = [dreport EXCEPT ![d] = report]
    /\ ddata' = [ddata EXCEPT ![d] = NoData]

\* _handle_post_decision for a button of approval message m pressed by
\* `user` (query.from_user.id): get_pending_approval (None when the store
\* fails) tells whether the request is still open
_handle_post_decision(d, user, m, kind) ==
    /\ dpc[d] = "idle"
    /\ \A e \in Decisions : e < d => dpc[e] # "idle"
    /\ \E ok \in Outcomes :
          LET rows == IF ok THEN get_pending_approval_rows(m.message_id)
                      ELSE {}
          IN  /\ Fault(ok)
              /\ IF rows = {}
                 THEN Finish(d, "expired")
                 ELSE /\ \E row \in rows :
                            ddata' = [ddata EXCEPT ![d] =
                                row @@ [actor |-> user, forwarded |-> 0]]
                      /\ dpc' = [dpc EXCEPT ![d] = kind]
                      /\ UNCHANGED dreport
    /\ dkind' = [dkind EXCEPT ![d] = kind]
    /\ dmsg' = [dmsg EXCEPT ![d] = m.message_id]
    /\ UNCHANGED <<storeVars, worldVars, passVars>>

\* a button of a delivered approval message is pressed by the admin of
\* that chat
DecisionArrives(d, m, kind) == _handle_post_decision(d, m.chat, m, kind)

\* _approve_post up to approve_post: the file checks, then the delivery to
\* the rule's target channel (which may fail)
ApproveDeliver(d) ==
    /\ dpc[d] = "approve"
    /\ LET a == ddata[d] IN
       IF a.file_path = NoPath
       THEN Finish(d, "media_not_found") /\ UNCHANGED channel_msgs
       ELSE IF ~file_available(a.file_path)
       THEN Finish(d, "media_gone") /\ UNCHANGED channel_msgs
       ELSE IF a.media_type \notin {"image", "video"}
       THEN Finish(d, "unsupported") /\ UNCHANGED channel_msgs
       ELSE \E sent \in BOOLEAN :
               IF sent
               THEN LET fwd == Cardinality(channel_msgs) + 1
                    IN  /\ channel_msgs' = channel_msgs \cup
                              {[message_id |-> fwd,
                                channel |-> a.target_channel,
                                post_id |-> a.post_id]}
                        /\ ddata' = [ddata EXCEPT ![d].forwarded = fwd]
                        /\ dpc' = [dpc EXCEPT ![d] = "finalize"]
                        /\ UNCHANGED dreport
               ELSE Finish(d, "delivery_failed") /\ UNCHANGED channel_msgs
    /\ UNCHANGED <<storeVars, files, media, tz, bootVars, chatVars, resVars,
                   approval_msgs, now, faults,
                   passVars, dkind, dmsg>>

\* _approve_post: approve_post, then the report of its result
ApproveFinalize(d) ==
    /\ dpc[d] = "finalize"
    /\ LET a == ddata[d] IN
       \E ok \in Outcomes :
          /\ Fault(ok)
          /\ IF ok
             THEN LET r == approve_post(a.post_id, a.actor, a.rule_id,
                                        a.target_channel, a.forwarded)
                  IN  /\ approved' = r.approved
                      /\ posts' = r.posts
                      /\ pending' = r.pending
                      /\ dpc' = [dpc EXCEPT ![d] = "cleanup"]
                      /\ dreport' = [dreport EXCEPT ![d] = "approved"]
                      /\ UNCHANGED ddata
             ELSE /\ Finish(d, "finalize_failed")
                  /\ UNCHANGED <<approved, posts, pending>>
    /\ UNCHANGED <<recent, rules, next_rule_id, worldVars, passVars, dkind,
                   dmsg>>

\* _reject_post: reject_post, then the report of its result
RejectFinalize(d) ==
    /\ dpc[d] = "reject"
    /\ LET a == ddata[d] IN
       \E ok \in Outcomes :
          /\ Fault(ok)
          /\ IF ok
             THEN LET r == reject_post(a.post_id, a.actor, a.rule_id)
                  IN  /\ posts' = r.posts
                      /\ pending' = r.pending
                      /\ dpc' = [dpc EXCEPT ![d] = "cleanup"]
                      /\ dreport' = [dreport EXCEPT ![d] = "rejected"]
                      /\ UNCHANGED ddata
             ELSE /\ Finish(d, "reject_failed")
                  /\ UNCHANGED <<posts, pending>>
    /\ UNCHANGED <<recent, rules, next_rule_id, approved, worldVars, passVars,
                   dkind, dmsg>>

\* the tail of _approve_post and _reject_post after a finalised decision:
\* the approval message is dismissed and os.remove(file_path) is tried
Cleanup(d) ==
    /\ dpc[d] = "cleanup"
    /\ files' = files \ {ddata[d].file_path}
    /\ dpc' = [dpc EXCEPT ![d] = "done"]
    /\ ddata' = [ddata EXCEPT ![d] = NoData]
    /\ UNCHANGED <<storeVars, media, tz, bootVars, chatVars, resVars,
                   approval_msgs,
                   channel_msgs, now, faults,
                   passVars, dkind, dmsg, dreport>>

\* --------------------------------------------------------- specifications

NextIngest ==
    \/ MinutePasses
    \/ HourPasses
    \/ TickStart
    \/ \E admin \in Admins, sub \in Subreddits, sort \in SortTypes,
          freq \in Frequencies, chan \in Channels :
          CreateRule(admin, sub, sort, freq, chan)
    \/ FetchRule
    \/ \E c \in Passes : CheckRule(c)
    \/ \E c \in Passes : RuleCheckRaises(c)
    \/ \E c \in Passes : PostExists(c)
    \/ \E c \in Passes : Download(c)
    \/ \E c \in Passes : AddPost(c)
    \/ \E c \in Passes : SendForApproval(c)
    \/ \E c \in Passes : AddPending(c)
    \/ \E c \in Passes : TouchRule(c)
    \/ \E i \in 1..MaxRules, admin \in Admins : DeleteRule(i, admin)

NextDecide ==
    \/ \E d \in Decisions, m \in approval_msgs, kind \in DecisionKinds :
          DecisionArrives(d, m, kind)
    \/ \E d \in Decisions : ApproveDeliver(d)
    \/ \E d \in Decisions : ApproveFinalize(d)
    \/ \E d \in Decisions : RejectFinalize(d)
    \/ \E d \in Decisions : Cleanup(d)
    \/ \E i \in 1..MaxRules, admin \in Admins : DeleteRule(i, admin)

Next == NextIngest \/ NextDecide

Spec == Init /\ [][Next]_vars

SpecIngest == Init /\ [][NextIngest]_vars

\* Rule authoring on its own: several admins author rules with several
\* frequencies, each followed by its immediate check; no scheduler tick,
\* no decision.  SpecOwners adds rule deletion by any of the admins.
RuleAdmins == {"admin1", "admin2"}
RuleFrequencies == {MinFrequency, MinFrequency + 1}

NextRules ==
    \/ HourPasses
    \/ \E admin \in RuleAdmins, sub \in Subreddits, sort \in SortTypes,
          freq \in RuleFrequencies, chan \in Channels :
          CreateRule(admin, sub, sort, freq, chan)
    \/ FetchRule
    \/ CheckRule("immediate")
    \/ RuleCheckRaises("immediate")
    \/ PostExists("immediate")
    \/ Download("immediate")
    \/ AddPost("immediate")
    \/ SendForApproval("immediate")
    \/ AddPending("immediate")
    \/ TouchRule("immediate")

SpecRules == Init /\ [][NextRules]_vars

NextOwners ==
    \/ NextRules
    \/ \E i \in 1..MaxRules, admin \in RuleAdmins : DeleteRule(i, admin)

SpecOwners == Init /\ [][NextOwners]_vars

\* One admin authors rules on the feed that lists several posts; each rule
\* is followed by its immediate check.
InitPass ==
    /\ posts = <<>>
    /\ recent = {}
    /\ rules = <<>>
    /\ next_rule_id = 1
    /\ pending = {}
    /\ approved = {}
    /\ files = {}
    /\ media \in [Feed(BusyFeed) -> MediaTypes]
    /\ approval_msgs = {}
    /\ channel_msgs = {}
    /\ now = 0
    /\ tz = 0
    /\ faults = 0
    /\ IdleProcesses

NextPass ==
    \/ \E admin \in Admins, sort \in SortTypes, freq \in Frequencies,
          chan \in Channels :
          CreateRule(admin, BusyFeed, sort, freq, chan)
    \/ FetchRule
    \/ CheckRule("immediate")
    \/ RuleCheckRaises("immediate")
    \/ PostExists("immediate")
    \/ Download("immediate")
    \/ AddPost("immediate")
    \/ SendForApproval("immediate")
    \/ AddPending("immediate")
    \/ TouchRule("immediate")

SpecPass == InitPass /\ [][NextPass]_vars

\* ------------------------------------------------------------- startup
\* os.getenv gives None for an unset variable and "" for an empty one; both
\* are false in `if not ...`, while int() only accepts digits (an unset
\* CHECK_INTERVAL_MINUTES takes its default "5")
Missing(v) == v \in {"unset", ""}
IntParses(v) == v \in {"unset", "5"}

\* a configuration that only requires the messaging token
ConfigRaises_token_only(env) ==
    \/ Missing(env.token)
    \/ ~IntParses(env.interval)

\* Config.__init__ raises ValueError
ConfigRaises(env) ==
    \/ Missing(env.token)
    \/ Missing(env.client_id) \/ Missing(env.client_secret)
    \/ ~IntParses(env.interval)

\* main: config = Config(); a ValueError reaches `except Exception`, which
\* logs "Fatal error" and calls sys.exit(1)
LoadConfig ==
    /\ bpc = "config"
    /\ bpc' = IF ConfigRaises(environ) THEN "exit" ELSE "construct"
    /\ UNCHANGED <<storeVars, files, media, approval_msgs, channel_msgs, now,
                   tz, environ, chatVars, resVars, faults, passVars, decVars>>

\* main: bot = RedditTelegramBot(config); an exception of a constructor
\* (Database, RedditScraper, Application.builder) ends in sys.exit(1) too
ConstructBot ==
    /\ bpc = "construct"
    /\ \E ok \in BOOLEAN : bpc' = IF ok THEN "start" ELSE "exit"
    /\ UNCHANGED <<storeVars, files, media, approval_msgs, channel_msgs, now,
                   tz, environ, chatVars, resVars, faults, passVars, decVars>>

\* bot.start(): init_db, application.initialize/start, then
\* asyncio.create_task(self._scraper_loop()); an exception before that is
\* logged by start() itself, which stops the bot and returns
StartBot ==
    /\ bpc = "start"
    /\ \E ok \in BOOLEAN : bpc' = IF ok THEN "running" ELSE "stopped"
    /\ UNCHANGED <<storeVars, files, media, approval_msgs, channel_msgs, now,
                   tz, environ, chatVars, resVars, faults, passVars, decVars>>

InitBoot ==
    /\ posts = <<>>
    /\ recent = {}
    /\ rules = <<>>
    /\ next_rule_id = 1
    /\ pending = {}
    /\ approved = {}
    /\ files = {}
    /\ media \in [Posts -> {"image"}]
    /\ approval_msgs = {}
    /\ channel_msgs = {}
    /\ now = 0
    /\ tz = 0
    /\ faults = 0
    /\ IdlePasses
    /\ ResolverIdle
    /\ environ \in [token : EnvValues, client_id : EnvValues,
                    client_secret : EnvValues, interval : IntValues]
    /\ bpc = "config"

NextBoot ==
    \/ LoadConfig
    \/ ConstructBot
    \/ StartBot

SpecBoot == InitBoot /\ [][NextBoot]_vars

\* ------------------------------------------------------- media resolver
\* One submission goes through scrape_subreddit (listed or not, media_type)
\* and, when listed, through download_media.  The submission is described
\* by the attributes the code looks at; `url` is the kind of its link:
\*   "image_file"  path ends in an image extension
\*   "video_file"  path ends in a video extension
\*   "i.redd.it"   the image host, no extension
\*   "v.redd.it"   the video host
\*   "imgur_page"  an imgur page
\*   "page"        anything else (a gallery page, the permalink of a self
\*                 post, another site)
\* `gallery` lists the sub-items of gallery_data in order: "image" (type
\* image with a source URL in media_metadata), "video", or "bare" (no usable
\* metadata).  `duration` is what ffprobe reports in seconds, 0 when it
\* reports nothing.  Requests, yt-dlp and HandBrake answer as they please:
\* each call draws its outcome and is appended to `calls`.
UrlKinds == {"image_file", "video_file", "i.redd.it", "v.redd.it",
             "imgur_page", "page"}
SubItems == {"image", "video", "bare"}
Durations == {0, PiCeiling, PiCeiling + 1, Ceiling, Ceiling + 1}

GallerySeqs == UNION {[1..n -> SubItems] : n \in 0..MaxGalleryItems}

TempFile(id, kind) == <<"temp", id, kind>>

\* _is_direct_media_url
_is_direct_media_url(url) == url \in {"image_file", "video_file"}

\* _has_media: direct media URL, is_video, is_gallery, preview, media domain
_has_media(post) ==
    \/ _is_direct_media_url(post.url)
    \/ post.reddit_video
    \/ post.gallery_data
    \/ post.preview
    \/ post.url \in {"i.redd.it", "v.redd.it", "imgur_page"}

\* a classification that looks at the self marker before the image signals
_get_media_type_self_first(post) ==
    IF post.gallery_data THEN "gallery"
    ELSE IF post.reddit_video THEN "video"
    ELSE IF post.is_self THEN "text"
    ELSE IF post.url = "image_file" THEN "image"
    ELSE IF post.url = "i.redd.it" THEN "image"
    ELSE "video"

\* _get_media_type
_get_media_type(post) ==
    IF post.gallery_data THEN "gallery"
    ELSE IF post.reddit_video THEN "video"
    ELSE IF post.url = "image_file" THEN "image"
    ELSE IF post.url = "i.redd.it" THEN "image"
    ELSE IF post.is_self THEN "text"
    ELSE "video"

\* _extract_gallery_images: the source URLs of the image sub-items, in order
RECURSIVE ImagesFrom(_, _)
ImagesFrom(g, i) ==
    IF i > Len(g) THEN <<>>
    ELSE IF g[i] = "image" THEN <<<<"sub", i>>>> \o ImagesFrom(g, i + 1)
    ELSE ImagesFrom(g, i + 1)

_extract_gallery_images(g) == ImagesFrom(g, 1)

\* a ceiling that ignores the mode of the host
max_duration_any_host(h) == Ceiling

\* _encode_video_for_telegram: max_duration
max_duration(h) == IF h.raspberry_pi_mode THEN PiCeiling ELSE Ceiling

Call(op, url, out) == [op |-> op, url |-> url, out |-> out]

Items ==
    {it \in [id : {1}, gallery_data : BOOLEAN, reddit_video : BOOLEAN,
             url : UrlKinds, is_self : BOOLEAN, preview : BOOLEAN,
             gallery : GallerySeqs, duration : Durations] :
        /\ ~it.gallery_data => it.gallery = <<>>
        /\ _get_media_type(it) # "video" => it.duration = 0}

outsideResolver ==
    <<storeVars, media, approval_msgs, channel_msgs, now, tz, bootVars, faults,
      passVars, decVars, chatVars>>

\* download_media returns
Return(f) ==
    /\ result' = f
    /\ rpc' = "done"

\* scrape_subreddit: a submission without media is not listed; a listed one
\* gets its media_type
Scrape ==
    /\ rpc = "scrape"
    /\ IF _has_media(item)
       THEN /\ rtype' = _get_media_type(item)
            /\ rpc' = "resolve"
       ELSE /\ rpc' = "dropped"
            /\ UNCHANGED rtype
    /\ UNCHANGED <<files, host, item, rurl, rfile, calls, result,
                   outsideResolver>>

\* download_media up to its first call
ResolveStart ==
    /\ rpc = "resolve"
    /\ IF rtype = "gallery"
       THEN IF _extract_gallery_images(item.gallery) # <<>>
            THEN /\ rpc' = "gallery"
                 /\ UNCHANGED result
            ELSE Return(NoPath)
       ELSE IF rtype = "video"
       THEN IF host.ytdlp
            THEN /\ rpc' = "ytdlp"
                 /\ UNCHANGED result
            ELSE Return(NoPath)
       ELSE /\ rpc' = "geturl"
            /\ UNCHANGED result
    /\ UNCHANGED <<files, host, item, rtype, rurl, rfile, calls,
                   outsideResolver>>

\* requests.get and the write loop (download_media, _download_file):
\*   "ok"      the body is saved
\*   "error"   the request fails before anything is written
\*   "broken"  the connection breaks while the body is written
\*   "empty"   the saved file has no bytes and is unlinked
FetchOutcomes == {"ok", "error", "broken", "empty"}

Saved(id, out) ==
    IF out \in {"ok", "broken"}
    THEN files \cup {TempFile(id, "download")}
    ELSE files \ {TempFile(id, "download")}

\* gallery: _download_file(gallery_images[0]); a file is returned, no file
\* falls out of the gallery branch into the direct download below
GalleryFetch ==
    /\ rpc = "gallery"
    /\ LET first == Head(_extract_gallery_images(item.gallery)) IN
       \E out \in FetchOutcomes :
          /\ calls' = Append(calls, Call("get", first, out))
          /\ files' = Saved(item.id, out)
          /\ IF out = "ok"
             THEN /\ Return(TempFile(item.id, "download"))
                  /\ rfile' = TempFile(item.id, "download")
             ELSE /\ rpc' = "geturl"
                  /\ UNCHANGED <<result, rfile>>
    /\ UNCHANGED <<host, item, rtype, rurl, outsideResolver>>

\* _download_video_with_ytdlp(permalink):
\*   "merged"        video and audio combined into one file
\*   "video_only"    no audio stream; the single-file format is taken
\*   "merge_failed"  both streams downloaded, combining them fails: yt-dlp
\*                   raises DownloadError and the streams stay on disk
\*   "error"         nothing could be downloaded
\*   "empty"         the output file is missing or has no bytes
YtdlpOutcomes == {"merged", "video_only", "merge_failed", "error", "empty"}

YtDlp ==
    /\ rpc = "ytdlp"
    /\ \E out \in YtdlpOutcomes :
          /\ calls' = Append(calls, Call("ytdlp", <<"permalink">>, out))
          /\ files' = files \cup
                (CASE out \in {"merged", "video_only"} ->
                          {TempFile(item.id, "download")}
                   [] out = "merge_failed" -> {TempFile(item.id, "stream")}
                   [] out = "empty" -> {TempFile(item.id, "download")}
                   [] OTHER -> {})
          /\ IF out \in {"merged", "video_only"}
             THEN /\ rfile' = TempFile(item.id, "download")
                  /\ IF host.handbrake
                     THEN /\ rpc' = "encode"
                          /\ UNCHANGED result
                     ELSE Return(TempFile(item.id, "download"))
             ELSE /\ Return(NoPath)
                  /\ UNCHANGED rfile
    /\ UNCHANGED <<host, item, rtype, rurl, outsideResolver>>

\* _encode_video_for_telegram and what download_media does with its
\* result; HandBrake
\*   "ok"       writes the output file
\*   "failed"   exits non-zero (an incomplete output is unlinked)
\*   "timeout"  is killed after the timeout, its output stays as it is
HandbrakeOutcomes == {"ok", "failed", "timeout"}

Encode ==
    /\ rpc = "encode"
    /\ IF item.duration # 0 /\ item.duration > max_duration(host)
       THEN /\ Return(rfile)
            /\ UNCHANGED <<files, calls>>
       ELSE \E out \in HandbrakeOutcomes :
               /\ calls' = Append(calls, Call("handbrake", <<"file">>, out))
               /\ CASE out = "ok" ->
                         /\ files' = (files \ {rfile}) \cup
                                         {TempFile(item.id, "encoded")}
                         /\ Return(TempFile(item.id, "encoded"))
                    [] out = "failed" ->
                         /\ files' = files
                         /\ Return(rfile)
                    [] out = "timeout" ->
                         /\ files' = files \cup {TempFile(item.id, "encoded")}
                         /\ Return(rfile)
    /\ UNCHANGED <<host, item, rtype, rurl, rfile, outsideResolver>>

\* _get_download_url: the link itself, except that a v.redd.it link is
\* probed down the quality ladder (the first tier that answers, tier 96
\* when none does) and an imgur page becomes a direct link
DashTiers == <<720, 480, 360, 240>>
DashFallback == 96

GetDownloadUrl ==
    /\ rpc = "geturl"
    /\ CASE item.url = "v.redd.it" ->
              \E k \in 0..Len(DashTiers) :
                 LET u == <<"dash", IF k = 0 THEN DashFallback
                                     ELSE DashTiers[k]>>
                 IN  /\ rurl' = u
                     /\ calls' = Append(calls,
                           Call("head", u, IF k = 0 THEN "none" ELSE "found"))
         [] item.url = "imgur_page" ->
              /\ rurl' = <<"imgur", IF rtype = "video" THEN "mp4" ELSE "jpg">>
              /\ UNCHANGED calls
         [] OTHER ->
              /\ rurl' = <<"item">>
              /\ UNCHANGED calls
    /\ rpc' = "fetch"
    /\ UNCHANGED <<files, host, item, rtype, rfile, result, outsideResolver>>

\* the direct download of download_media
Fetch ==
    /\ rpc = "fetch"
    /\ \E out \in FetchOutcomes :
          /\ calls' = Append(calls, Call("get", rurl, out))
          /\ files' = Saved(item.id, out)
          /\ IF out = "ok"
             THEN /\ Return(TempFile(item.id, "download"))
                  /\ rfile' = TempFile(item.id, "download")
             ELSE /\ Return(NoPath)
                  /\ UNCHANGED rfile
    /\ UNCHANGED <<host, item, rtype, rurl, outsideResolver>>

InitResolve ==
    /\ posts = <<>>
    /\ recent = {}
    /\ rules = <<>>
    /\ next_rule_id = 1
    /\ pending = {}
    /\ approved = {}
    /\ files = {}
    /\ media \in [Posts -> {"image"}]
    /\ approval_msgs = {}
    /\ channel_msgs = {}
    /\ now = 0
    /\ tz = 0
    /\ faults = 0
    /\ IdlePasses
    /\ Started
    /\ host \in [ytdlp : BOOLEAN, handbrake : BOOLEAN,
                 raspberry_pi_mode : BOOLEAN]
    /\ item \in Items
    /\ rpc = "scrape"
    /\ rtype = "none"
    /\ rurl = <<>>
    /\ rfile = NoPath
    /\ calls = <<>>
    /\ result = NoPath

NextResolve ==
    \/ Scrape
    \/ ResolveStart
    \/ GalleryFetch
    \/ YtDlp
    \/ Encode
    \/ GetDownloadUrl
    \/ Fetch

SpecResolve == InitResolve /\ [][NextResolve]_vars

\* a rule row as add_forwarder_rule and a first completed check leave it
RuleRow(i, sort) ==
    [id |-> i, admin_id |-> "admin1", subreddit |-> "pics", sort_type |-> sort,
     time_filter |-> "day", frequency_hours |-> MinFrequency,
     target_channel |-> "@channel", active |-> TRUE, last_check |-> 0]

\* ------------------------------------------------------- scheduler loop
\* _scraper_loop on its own: one rule or two have been authored (one per
\* sort type) and their immediate checks listed nothing; from then on only
\* the loop runs, until stop() cancels its task.  ppc["tick"] = "idle" is the sleep between two ticks,
\* "exited" is the loop after its break.
LoopSorts == <<"hot", "new">>

InitLoop ==
    /\ posts = <<>>
    /\ recent = {}
    /\ \E n \in 1..Len(LoopSorts) :
          /\ rules = [i \in 1..n |-> RuleRow(i, LoopSorts[i])]
          /\ next_rule_id = n + 1
    /\ pending = {}
    /\ approved = {}
    /\ files = {}
    /\ media \in [Posts -> MediaTypes]
    /\ approval_msgs = {}
    /\ channel_msgs = {}
    /\ now = 0
    /\ tz \in UtcOffsets
    /\ faults = 0
    /\ IdleProcesses

LoopExits ==
    /\ ppc' = [ppc EXCEPT !["tick"] = "exited"]
    /\ prules' = [prules EXCEPT !["tick"] = <<>>]
    /\ prule' = [prule EXCEPT !["tick"] = NoRule]
    /\ pposts' = [pposts EXCEPT !["tick"] = <<>>]
    /\ pfile' = [pfile EXCEPT !["tick"] = NoPath]
    /\ psent' = [psent EXCEPT !["tick"] = 0]

\* a loop whose handler gives up
LoopRaises_exits ==
    /\ ppc["tick"] = "rules"
    /\ faults < MaxFaults
    /\ faults' = faults + 1
    /\ LoopExits
    /\ UNCHANGED <<storeVars, worldVars, decVars>>

\* _check_all_rules raises outside the per-rule try: the except Exception
\* of _scraper_loop logs the error, sleeps a minute and loops
LoopRaises ==
    /\ ppc["tick"] = "rules"
    /\ faults < MaxFaults
    /\ faults' = faults + 1
    /\ ppc' = [ppc EXCEPT !["tick"] = "idle"]
    /\ prules' = [prules EXCEPT !["tick"] = <<>>]
    /\ UNCHANGED <<storeVars, worldVars, prule, pposts, pfile, psent, decVars>>

\* stop() cancels the task: CancelledError is raised at the await the loop
\* is suspended in, passes every except Exception and ends the loop
CancelLoop ==
    /\ ppc["tick"] # "exited"
    /\ LoopExits
    /\ UNCHANGED <<storeVars, worldVars, faults, decVars>>

\* the steps the loop takes by itself
TickStep ==
    \/ TickStart
    \/ CheckRule("tick")
    \/ PostExists("tick")
    \/ Download("tick")
    \/ AddPost("tick")
    \/ SendForApproval("tick")
    \/ AddPending("tick")
    \/ TouchRule("tick")

NextLoop ==
    \/ HourPasses
    \/ TickStep
    \/ RuleCheckRaises("tick")
    \/ LoopRaises
    \/ CancelLoop

\* the event loop resumes a coroutine whose await has completed, and every
\* sleep ends
SpecLoop == InitLoop /\ [][NextLoop]_vars /\ WF_vars(TickStep)

\* The store states ingestion leaves behind for post 1: one rule has been
\* checked and the post was delivered for approval; `stored` is the file
\* path of its row (NULL when an overlapping pass registered the post after
\* a failed download); `second` tells whether an overlapping pass delivered
\* the post a second time (0: no, otherwise the id of that pass's rule).
IngestLeaves(stored, second) ==
    /\ media \in {f \in [Posts -> MediaTypes] : f[1] \in {"image", "video"}}
    /\ posts = (1 :> [media_type |-> media[1], file_path |-> stored,
                      status |-> "pending", admin_id |-> "NULL"])
    /\ recent = {}
    /\ rules = IF second = 2
               THEN (1 :> RuleRow(1, "hot")) @@ (2 :> RuleRow(2, "new"))
               ELSE (1 :> RuleRow(1, "hot"))
    /\ next_rule_id = IF second = 2 THEN 3 ELSE 2
    /\ pending = {[post_id |-> 1, admin_id |-> "admin1", rule_id |-> 1,
                   message_id |-> 1]} \cup
                 (IF second = 0 THEN {}
                  ELSE {[post_id |-> 1, admin_id |-> "admin1",
                         rule_id |-> second, message_id |-> 2]})
    /\ approved = {}
    /\ files = {PathOf(1)}
    /\ approval_msgs = {[message_id |-> m, chat |-> "admin1", post_id |-> 1] :
                           m \in IF second = 0 THEN {1} ELSE {1, 2}}
    /\ channel_msgs = {}
    /\ now = 0
    /\ tz = 0
    /\ faults = 0
    /\ IdleProcesses

Leaves == {<<PathOf(1), 0>>, <<PathOf(1), 1>>, <<PathOf(1), 2>>, <<NoPath, 0>>}

InitDecide == \E l \in Leaves : IngestLeaves(l[1], l[2])

SpecDecide == InitDecide /\ [][NextDecide]_vars

\* SpecIngest reaches every start state of SpecDecide: under SpecIngest each
\* of these four is violated
NeverLeavesSingle == ~IngestLeaves(PathOf(1), 0)
NeverLeavesTwiceSameRule == ~IngestLeaves(PathOf(1), 1)
NeverLeavesTwiceOtherRule == ~IngestLeaves(PathOf(1), 2)
NeverLeavesNullPath == ~IngestLeaves(NoPath, 0)

\* ------------------------------------------------------------------ claims

PendingFor(d) ==
    {x \in pending : /\ x.post_id = ddata[d].post_id
                     /\ x.admin_id = ddata[d].actor
                     /\ x.rule_id = ddata[d].rule_id}

\* C1: add_post reports inserted=true to a check pass (which then goes on
\* to deliver the item) only when that very call inserted the id, so over
\* all calls with one id only one reports true.
C1_InsertedTrueOnlyOnce ==
    [][\A c \in Passes :
          (ppc[c] = "add" /\ ppc'[c] = "send")
              => Head(pposts[c]) \notin DOMAIN posts]_vars

C3_DeliveredForApprovalOnce ==
    \A p \in Posts : Cardinality({m \in approval_msgs : m.post_id = p}) <= 1

\* C4: at most one PendingApproval row per (item id, owner, rule) triple.
C4_OnePendingPerTriple ==
    \A x \in pending, y \in pending :
        (x.post_id = y.post_id /\ x.admin_id = y.admin_id
            /\ x.rule_id = y.rule_id) => x = y

\* C5: approve_post called while no PendingApproval exists for its (item,
\* owner, rule) reports failure and writes no ApprovedRecord and no status.
C5_ApproveWithoutPendingIsNoOp ==
    [][\A d \in Decisions :
          (dpc[d] = "finalize" /\ dpc'[d] # "finalize" /\ PendingFor(d) = {})
              => /\ dreport'[d] = "finalize_failed"
                 /\ approved' = approved
                 /\ posts' = posts]_vars

\* C6: reject_post called while no PendingApproval exists for its (item,
\* owner, rule) reports failure and leaves the item status unchanged.
C6_RejectWithoutPendingIsNoOp ==
    [][\A d \in Decisions :
          (dpc[d] = "reject" /\ dpc'[d] # "reject" /\ PendingFor(d) = {})
              => /\ dreport'[d] = "reject_failed"
                 /\ posts' = posts]_vars

\* the handle's PendingApproval was finalised by an earlier decision
Finalised(h) ==
    \E d \in Decisions : dmsg[d] = h /\ dreport[d] \in {"approved", "rejected"}

\* C7: a decision arriving for a handle that an earlier decision finalised
\* is reported as expired and changes nothing: no status, no ApprovedRecord,
\* no PendingApproval, no forward, no file.
C7_DecisionOnFinalisedHandleExpires ==
    [][\A d \in Decisions :
          (dpc[d] = "idle" /\ dpc'[d] # "idle" /\ Finalised(dmsg'[d]))
              => /\ dpc'[d] = "done"
                 /\ dreport'[d] = "expired"
                 /\ UNCHANGED <<posts, approved, pending, channel_msgs, files,
                                rules>>]_vars

\* a decision was reported expired on a handle another decision approved or
\* rejected, with the store available and the rule still there
C7_Witness ==
    \E d1 \in Decisions, d2 \in Decisions :
        /\ d1 # d2
        /\ dpc[d1] = "done" /\ dreport[d1] \in {"approved", "rejected"}
        /\ dmsg[d2] = dmsg[d1]
        /\ dpc[d2] = "done" /\ dreport[d2] = "expired"
        /\ faults = 0
        /\ 1 \in DOMAIN rules

\* what a finalised approval leaves: the forward in the target channel, its
\* ApprovedRecord, status approved, no PendingApproval under the handle
ApprovedEffects(d) ==
    LET a == ddata[d]
        rec == [post_id |-> a.post_id, admin_id |-> a.actor,
                rule_id |-> a.rule_id, target_channel |-> a.target_channel,
                forwarded_message_id |-> a.forwarded]
    IN  /\ dpc'[d] = "cleanup"
        /\ dreport'[d] = "approved"
        /\ [message_id |-> a.forwarded, channel |-> a.target_channel,
            post_id |-> a.post_id] \in channel_msgs'
        /\ rec \notin approved
        /\ approved' = approved \cup {rec}
        /\ posts'[a.post_id].status = "approved"
        /\ ~\E x \in pending' : x.message_id = dmsg[d]

C9_DecidedStatusIsTerminal ==
    [][\A p \in DOMAIN posts :
          posts[p].status \in {"approved", "rejected"}
              => posts'[p].status = posts[p].status]_vars

\* C10: an approve decision whose item has no local file (null path, or the
\* file is not on disk) is reported as failed and changes nothing else.
C10_ApproveWithoutFileChangesNothing ==
    [][\A d \in Decisions :
          (/\ dpc[d] = "approve" /\ dpc'[d] # "approve"
           /\ (ddata[d].file_path = NoPath \/ ddata[d].file_path \notin files))
              => /\ dpc'[d] = "done"
                 /\ dreport'[d] \in {"media_not_found", "media_gone"}
                 /\ UNCHANGED <<posts, pending, approved, channel_msgs, files,
                                rules>>]_vars

\* an approve decision was reported failed for a missing file while its
\* PendingApproval is still there and the item is still pending
C10_Witness ==
    \E d \in Decisions, x \in pending :
        /\ dpc[d] = "done" /\ dkind[d] = "approve"
        /\ dreport[d] \in {"media_not_found", "media_gone"}
        /\ x.message_id = dmsg[d]
        /\ posts[x.post_id].status = "pending"
        /\ channel_msgs = {}
        /\ approved = {}

\* C11: when the delivery to the target channel fails during an approve
\* decision (the file is there, nothing reaches the channel), the failure is
\* reported and nothing is finalised: PendingApproval, status,
\* ApprovedRecords and the file are as before.
C11_DeliveryFailureLeavesPending ==
    [][\A d \in Decisions :
          (/\ dpc[d] = "approve" /\ dpc'[d] # "approve"
           /\ ddata[d].file_path # NoPath /\ ddata[d].file_path \in files
           /\ channel_msgs' = channel_msgs)
              => /\ dpc'[d] = "done"
                 /\ dreport'[d] \in {"delivery_failed", "unsupported"}
                 /\ UNCHANGED <<posts, pending, approved, files, rules>>]_vars

\* an approve decision ended on a failed delivery; its PendingApproval is
\* still there, the item is pending, its file is kept
C11_Witness ==
    \E d \in Decisions, x \in pending :
        /\ dpc[d] = "done" /\ dkind[d] = "approve"
        /\ dreport[d] = "delivery_failed"
        /\ x.message_id = dmsg[d]
        /\ posts[x.post_id].status = "pending"
        /\ posts[x.post_id].file_path \in files
        /\ approved = {}
        /\ channel_msgs = {}

\* what a finalised rejection leaves: status rejected, no PendingApproval
\* under the handle, nothing forwarded, no ApprovedRecord
RejectedEffects(d) ==
    /\ dpc'[d] = "cleanup"
    /\ dreport'[d] = "rejected"
    /\ posts'[ddata[d].post_id].status = "rejected"
    /\ ~\E x \in pending' : x.message_id = dmsg[d]
    /\ UNCHANGED <<approved, channel_msgs>>

RowsOf(t, k) == {i \in DOMAIN t : RuleKey(t[i]) = k}

\* C13: the rules table holds at most one row per (owner, source, sort
\* mode, target channel), and add_forwarder_rule applied to it with any
\* arguments leaves exactly one row for the key of the call, carrying the
\* frequency of the call, and at most one row for every other key.
C13_OneRulePerKeyLatestFrequency ==
    /\ \A i \in DOMAIN rules : RowsOf(rules, RuleKey(rules[i])) = {i}
    /\ \A admin \in RuleAdmins, sub \in Subreddits, sort \in SortTypes,
          freq \in RuleFrequencies, chan \in Channels :
          LET t == add_forwarder_rule(admin, sub, sort, "day", freq, chan)
          IN  /\ Cardinality(RowsOf(t, <<admin, sub, sort, chan>>)) = 1
              /\ \A i \in RowsOf(t, <<admin, sub, sort, chan>>) :
                    t[i].frequency_hours = freq
              /\ \A i \in DOMAIN t : RowsOf(t, RuleKey(t[i])) = {i}

\* a rule was authored twice with one key (no rule is deleted under
\* SpecRules): only the second row is there, with the other frequency
C13_Witness ==
    /\ next_rule_id = 3
    /\ DOMAIN rules = {2}
    /\ rules[2].frequency_hours = MinFrequency + 1
    /\ \E x \in pending : x.rule_id = 1 /\ x.admin_id = rules[2].admin_id

C15_FileObtainedIsDelivered ==
    \A c \in Passes :
        (/\ ppc[c] = "send"
         /\ pfile[c] \in files
         /\ Cardinality(approval_msgs) < MaxMessages)
            => ENABLED (SendForApproval(c) /\ ppc'[c] = "add_pending")

\* the time the claim speaks of: hours since the rule's last completed
\* check, on one clock
Due(rule) ==
    \/ rule.last_check = NoCheck
    \/ now >= rule.last_check + rule.frequency_hours

\* C16: a pass checks the rule it takes from its list (and whose check does
\* not raise) exactly when the rule was never checked or now >=
\* lastChecked + frequencyHours; a rule that is
\* not due is left untouched (no listing, no resolution, lastChecked as it
\* was).
C16_CheckedExactlyWhenDue ==
    [][\A c \in Passes :
          (/\ ppc[c] = "rules" /\ prules[c] # <<>> /\ prules'[c] # prules[c]
           /\ faults' = faults)
              => /\ ppc'[c] = "posts" <=> Due(Head(prules[c]))
                 /\ ~Due(Head(prules[c]))
                       => UNCHANGED <<posts, rules, files, pending,
                                      approval_msgs, pposts>>]_vars

\* C17: the last-checked time of a rule (the row of its key) changes only in
\* the step in which a pass completes its check of that rule.
C17_LastCheckOnlyByCompletedPass ==
    [][\A i \in DOMAIN rules, j \in DOMAIN rules' :
          (/\ RuleKey(rules[i]) = RuleKey(rules'[j])
           /\ rules'[j].last_check # rules[i].last_check)
              => \E c \in Passes :
                    /\ ppc[c] = "posts" /\ pposts[c] = <<>>
                    /\ prule[c].id = i
                    /\ ppc'[c] = "rules"]_vars

\* C18: delete_rule(ruleId, ownerId) returns true exactly when the rule
\* exists and belongs to ownerId, and then removes that row and no other;
\* otherwise the rules are unchanged.
C18_DeleteRuleChecksOwner ==
    \A i \in 1..MaxRules, admin \in RuleAdmins :
        LET t == delete_rule(i, admin)
            r == delete_rule_result(i, admin)
        IN  /\ r <=> (i \in DOMAIN rules /\ rules[i].admin_id = admin)
            /\ r => /\ DOMAIN t = DOMAIN rules \ {i}
                    /\ \A j \in DOMAIN t : t[j] = rules[j]
            /\ ~r => t = rules

\* the rule of admin2 (its pending approval is still there) has been
\* deleted; the older rule of admin1 is there, out of reach of admin2
C18_Witness ==
    /\ next_rule_id = 3
    /\ DOMAIN rules = {1}
    /\ rules[1].admin_id = "admin1"
    /\ \E x \in pending : x.rule_id = 2 /\ x.admin_id = "admin2"

\* the pass goes on to the candidate after the one it is at
Continues(c) ==
    /\ ppc'[c] = "posts"
    /\ pposts'[c] = Tail(pposts[c])
    /\ prule'[c] = prule[c]
    /\ prules'[c] = prules[c]

\* C19: within a rule's check pass a candidate whose resolution,
\* registration, delivery for approval or binding fails is left behind and
\* the pass goes on with the remaining candidates; the pass ends only when
\* no candidate remains, with the call of update_rule_last_check.
C19_ItemFailureDoesNotStopPass ==
    [][\A c \in Passes :
          /\ (ppc[c] = "add" /\ ppc'[c] # "add"
                /\ (pfile[c] = NoPath \/ faults' # faults))
                => Continues(c)
          /\ (ppc[c] = "send" /\ ppc'[c] # "send"
                /\ approval_msgs' = approval_msgs)
                => Continues(c)
          /\ (ppc[c] = "add_pending" /\ ppc'[c] # "add_pending")
                => Continues(c)
          /\ (/\ ppc[c] \in {"posts", "download", "add", "send", "add_pending"}
              /\ ppc'[c] \in {"rules", "idle"})
                => /\ ppc[c] = "posts"
                   /\ pposts[c] = <<>>
                   /\ \/ rules' = update_rule_last_check(prule[c].id)
                      \/ faults' = faults + 1]_vars

\* the first candidate of the only pass so far failed to resolve; the pass
\* is at its second candidate, whose file it obtained
C19_Witness ==
    /\ next_rule_id = 2
    /\ ppc["immediate"] = "add"
    /\ pposts["immediate"] = <<2>>
    /\ pfile["immediate"] # NoPath
    /\ 1 \in DOMAIN posts
    /\ posts[1].file_path = NoPath
    /\ faults = 0

\* C20: when the check of a rule raises during a tick, the tick keeps the
\* rest of its list; the list only ever loses the rule being taken, one at
\* a time, and the tick ends only when the list is empty, so every active
\* rule that was read is evaluated.
C20_RuleFailureDoesNotAbortTick ==
    [][/\ (/\ ppc["tick"] = "rules" /\ prules["tick"] # <<>>
           /\ prules'["tick"] # prules["tick"] /\ faults' = faults + 1)
             => /\ ppc'["tick"] = "rules"
                /\ prules'["tick"] = Tail(prules["tick"])
                /\ UNCHANGED <<storeVars, files, approval_msgs>>
       /\ (ppc["tick"] # "idle" /\ prules'["tick"] # prules["tick"])
             => /\ ppc["tick"] = "rules"
                /\ prules'["tick"] = Tail(prules["tick"])
       /\ (ppc["tick"] # "idle" /\ ppc'["tick"] = "idle")
             => /\ ppc["tick"] = "rules"
                /\ prules["tick"] = <<>>]_vars

\* the tick read two rules in hour 1; rule 1 was due, its check failed and
\* left it as it was; the tick is checking rule 2
C20_Witness ==
    /\ DOMAIN rules = {1, 2}
    /\ now = 1
    /\ tz = 0
    /\ rules[1].last_check = 0
    /\ faults = 1
    /\ ppc["tick"] = "posts"
    /\ prule["tick"].id = 2
    /\ prules["tick"] = <<>>

\* C21: the scheduler loop is never ended by a failure inside a tick: the
\* loop exits only in a step that is its cancellation, and once something has
\* failed the loop still begins a later tick (all active rules read afresh)
\* unless it has been cancelled.
TickBegins ==
    /\ ppc["tick"] = "rules"
    /\ Len(prules["tick"]) = Cardinality(DOMAIN rules)

C21_LoopSurvivesFailures ==
    /\ [][(ppc'["tick"] = "exited" /\ ppc["tick"] # "exited") => CancelLoop]_vars
    /\ [](faults > 0 => <>(TickBegins \/ ppc["tick"] = "exited"))

\* a tick has failed as a whole and the loop has begun the next one
C21_Witness ==
    /\ faults = 1
    /\ TickBegins
    /\ rules[1].last_check = 0
    /\ now = 1
    /\ tz = 0
    /\ posts = <<>>

\* C22: when the record store is unavailable during the existence lookup of
\* a candidate, the pass skips the candidate: it goes on to the next one and
\* does not go on to resolve it.
C22_StoreFailureSkipsCandidate ==
    [][\A c \in Passes :
          (/\ ppc[c] = "posts"
           /\ pposts[c] # <<>>
           /\ <<ppc'[c], pposts'[c]>> # <<ppc[c], pposts[c]>>
           /\ faults' = faults + 1)
             => /\ ppc'[c] = "posts"
                /\ pposts'[c] = Tail(pposts[c])]_vars

\* C24: with a required credential missing (messaging token, content-source
\* client id or secret: unset or empty) the process never gets past loading
\* the configuration: the bot is not constructed, the scheduler loop is not
\* started, and the step that loads the configuration ends the process.
MissingCredential ==
    \/ Missing(environ.token)
    \/ Missing(environ.client_id)
    \/ Missing(environ.client_secret)

C24_MissingCredentialStopsStartup ==
    /\ [](MissingCredential => bpc \in {"config", "exit"})
    /\ [][(MissingCredential /\ bpc' # bpc) => bpc' = "exit"]_vars

\* the secret of the content source is empty and the process has exited
C24_Witness ==
    /\ environ.token = "set"
    /\ environ.client_id = "set"
    /\ environ.client_secret = ""
    /\ IntParses(environ.interval)
    /\ bpc = "exit"

\* C23: whenever yt-dlp acquired the video stream of an item (combined with
\* audio, without audio, or with a failed combination), download_media
\* returns a local file.
VideoStreamAcquired ==
    \E i \in 1..Len(calls) :
        /\ calls[i].op = "ytdlp"
        /\ calls[i].out \in {"merged", "video_only", "merge_failed"}

C23_AudioOptionalVideo ==
    (rpc = "done" /\ VideoStreamAcquired) => result # NoPath

\* C25: download_media reports a failure for a video on the video host only
\* after the manual quality ladder has been tried as well (a probe of the
\* tiers, then a download of the tier chosen).
LadderTried ==
    \E i \in 1..Len(calls) : calls[i].op = "head"

C25_VideoFailsOnlyAfterLadder ==
    (/\ rpc = "done"
     /\ rtype = "video"
     /\ item.url = "v.redd.it"
     /\ result = NoPath) => LadderTried

\* C26: the media_type of a listed submission follows from its signals in
\* this order of priority: gallery marker, native video marker, image
\* extension or image host, self marker, and video when none is present.
ImageSignal == item.url \in {"image_file", "i.redd.it"}

C27_TextIsNeverFetched ==
    rtype = "text" => (calls = <<>> /\ result = NoPath)

\* C28: for a gallery, download_media requests at most one URL, and only the
\* source URL of the first image sub-item; the file it returns, if any, is
\* the one that request saved.
C28_GalleryFirstImageOnly ==
    rtype = "gallery" =>
        /\ Len(calls) <= 1
        /\ \A i \in 1..Len(calls) :
              /\ calls[i].op = "get"
              /\ _extract_gallery_images(item.gallery) # <<>>
              /\ calls[i].url = Head(_extract_gallery_images(item.gallery))
        /\ result # NoPath =>
              /\ Len(calls) = 1
              /\ calls[1].out = "ok"

\* C29: once a video has been acquired, the step that decides about
\* re-encoding skips HandBrake when the duration exceeds the ceiling (120 s
\* in resource-constrained mode, 600 s otherwise); when HandBrake is skipped,
\* fails or times out the unencoded file is returned, when it succeeds the
\* re-encoded file is returned; the file returned exists.
C29_EncodeBoundedByDuration ==
    [][(rpc = "encode" /\ rpc' = "done") =>
          LET ceiling == IF host.raspberry_pi_mode THEN 120 ELSE 600
              skipped == calls' = calls
              out == calls'[Len(calls')].out
          IN  /\ item.duration > ceiling => skipped
              /\ skipped => result' = TempFile(item.id, "download")
              /\ (~skipped /\ out \in {"failed", "timeout"})
                    => result' = TempFile(item.id, "download")
              /\ (~skipped /\ out = "ok")
                    => result' = TempFile(item.id, "encoded")
              /\ result' \in files']_vars

\* resource-constrained mode, a clip of 121 s: HandBrake was not run and the
\* file yt-dlp saved was returned
C29_Witness ==
    /\ host.raspberry_pi_mode
    /\ host.handbrake
    /\ item.duration = 121
    /\ rpc = "done"
    /\ Len(calls) = 1
    /\ calls[1].op = "ytdlp"
    /\ result = TempFile(item.id, "download")
    /\ result \in files

\* C30: when download_media has returned, the temp directory holds of this
\* attempt exactly the file returned, and nothing when it returned no file.
C30_OnlyReturnedFileRemains ==
    rpc = "done" =>
        files = IF result = NoPath THEN {} ELSE {result}

\* C31: at any time at most one check pass is checking a given rule, also
\* when the immediate check of a freshly authored rule coincides with a
\* scheduler tick.
Checking(c, i) ==
    /\ ppc[c] \in {"posts", "download", "add", "send", "add_pending"}
    /\ prule[c].id = i

C31_OneCheckPerRule ==
    \A i \in 1..MaxRules :
        Cardinality({c \in Passes : Checking(c, i)}) <= 1

\* C32: while the loop is not cancelled, every rule that is due (never
\* checked, or its frequency has elapsed since its last check) is eventually
\* checked to the end: its last_check is brought up to the present.
C32_DueRuleEventuallyChecked ==
    \A i \in 1..MaxRules :
        []((/\ i \in DOMAIN rules
            /\ ppc["tick"] # "exited"
            /\ \/ rules[i].last_check = NoCheck
               \/ now >= rules[i].last_check + rules[i].frequency_hours)
              => <>(\/ ppc["tick"] = "exited"
                    \/ (i \in DOMAIN rules /\ rules[i].last_check = now)))

\* an hour after their authoring both rules were due, and the loop has
\* checked both
C32_Witness ==
    /\ DOMAIN rules = {1, 2}
    /\ now = 1
    /\ tz = 0
    /\ rules[1].last_check = 1
    /\ rules[2].last_check = 1
    /\ ppc["tick"] = "idle"

\* C33: after stop() the scheduler loop has ended for good: whatever the
\* loop was doing, delivering the cancellation ends it, and from then on the
\* loop starts no tick and no rule check, registers nothing and delivers
\* nothing.
C33_NoPassAfterCancellation ==
    /\ [](ppc["tick"] # "exited" => ENABLED CancelLoop)
    /\ [][ppc["tick"] = "exited" =>
            /\ ppc'["tick"] = "exited"
            /\ prules'["tick"] = <<>>
            /\ prule'["tick"] = NoRule
            /\ UNCHANGED <<posts, rules, pending, approved, files,
                           approval_msgs>>]_vars

\* the loop was cancelled in the middle of a pass: a file had been
\* downloaded for a post that was never registered; an hour later the rule is
\* due and the loop is still ended
C33_Witness ==
    /\ ppc["tick"] = "exited"
    /\ files # {}
    /\ posts = <<>>
    /\ now = 1
    /\ rules[1].last_check = 0

\* ------------------------------------------------------ rule authoring chat

\* admins.txt as _load_admins keeps it: one entry per line, a user id or a
\* username behind "@"
_admins == {[at |-> FALSE, text |-> "admin1"], [at |-> TRUE, text |-> "alice"]}

\* is_admin that lets every user through
is_admin_everyone(u) == TRUE

\* Config.is_admin(user.id, user.username)
is_admin(u) ==
    \/ [at |-> FALSE, text |-> u.id] \in _admins
    \/ /\ u.username # "NULL"
       /\ [at |-> TRUE, text |-> u.username] \in _admins

\* the messages a user types and the buttons of the two keyboards
Texts == {"pics", "r/pics", "0", "1", "169", "@channel"}
SortButtons == {"hot", "top"}
TimeButtons == {"week"}

\* text.replace('r/', '').replace('/', '')
StripSlashes(t) == IF t = "r/pics" THEN "pics" ELSE t

\* len(subreddit)
TextLen(t) ==
    CASE t = "pics" -> 4
      [] t = "r/pics" -> 6
      [] t \in {"0", "1"} -> 1
      [] t = "169" -> 3
      [] t = "@channel" -> 8

\* int(text) raises ValueError on a text that is not a number
IsNumber(t) == t \in {"0", "1", "169"}
int(t) ==
    CASE t = "0" -> 0
      [] t = "1" -> 1
      [] t = "169" -> 169

\* the frequency check that only refuses values below the range
frequency_in_range_no_ceiling(f) == ~(f < MinFrequency)

\* not (frequency < 1 or frequency > 168)
frequency_in_range(f) == ~(f < MinFrequency \/ f > MaxFrequency)

\* text.startswith('@') or text.lstrip('-').isdigit()
channel_format(t) == t = "@channel" \/ IsNumber(t)

\* _create_rule has been entered and has not reached its finally: the
\* dict holds 'target_channel', which is stored right before the call
Creating == \E i \in UserIds : session[i].target_channel # Unset

outsideChat ==
    <<files, media, approval_msgs, channel_msgs, now, tz, bootVars, resVars,
      decVars>>

Answer(u, text) == reply' = [reply EXCEPT ![u.id] = text]

\* context.user_data.pop('rule_creation', None)
Pop(u) == session' = [session EXCEPT ![u.id] = NoSession]

\* /add_rule: a user who is not an admin is told so, an admin gets a fresh
\* session at step 'subreddit'
add_rule_command(u) ==
    /\ bpc = "running"
    /\ ~Creating
    /\ IF is_admin(u)
       THEN /\ session' = [session EXCEPT ![u.id] =
                              [NoSession EXCEPT !.step = "subreddit"]]
            /\ Answer(u, "prompt")
       ELSE /\ Answer(u, "denied")
            /\ UNCHANGED session
    /\ UNCHANGED <<storeVars, faults, passVars, outsideChat>>

\* _create_rule without the lookups that raise KeyError: a field without a
\* key is stored as it is
create_rule_unguarded(s) == FALSE

\* _create_rule: rule_data['subreddit'] or rule_data['sort_type'] raises
\* KeyError before add_forwarder_rule is called
create_rule_raises(s) == s.subreddit = Unset \/ s.sort_type = Unset

\* handle_text_input: returns at once for a user who is not an admin or has
\* no session, and has no branch for the steps answered with a button.  At
\* step 'channel' it goes on into _create_rule: add_forwarder_rule, then
\* the immediate check is started; the except and the rule_id = 0 branch
\* answer and run into the finally
handle_text_input(u, t) ==
    /\ bpc = "running"
    /\ ~Creating
    /\ is_admin(u)
    /\ session[u.id].step \in {"subreddit", "frequency", "channel"}
    /\ LET s == session[u.id]
           sub == StripSlashes(t)
       IN  CASE s.step = "subreddit" ->
                  /\ IF TextLen(sub) < 2
                     THEN /\ Answer(u, "invalid")
                          /\ UNCHANGED session
                     ELSE /\ session' = [session EXCEPT ![u.id] =
                                 [s EXCEPT !.subreddit = sub,
                                           !.step = "sort_type"]]
                          /\ Answer(u, "prompt")
                  /\ UNCHANGED <<storeVars, faults, passVars>>
             [] s.step = "frequency" ->
                  /\ IF IsNumber(t) /\ frequency_in_range(int(t))
                     THEN /\ session' = [session EXCEPT ![u.id] =
                                 [s EXCEPT !.frequency_hours = int(t),
                                           !.step = "channel"]]
                          /\ Answer(u, "prompt")
                     ELSE /\ Answer(u, "invalid")
                          /\ UNCHANGED session
                  /\ UNCHANGED <<storeVars, faults, passVars>>
             [] s.step = "channel" /\ ~channel_format(t) ->
                  /\ Answer(u, "invalid")
                  /\ UNCHANGED <<session, storeVars, faults, passVars>>
             [] s.step = "channel" /\ channel_format(t) ->
                  IF create_rule_raises(s)
                  THEN /\ Answer(u, "error")
                       /\ Pop(u)
                       /\ UNCHANGED <<storeVars, faults, passVars>>
                  ELSE /\ next_rule_id <= MaxAuthored
                       /\ \E ok \in Outcomes :
                             /\ Fault(ok)
                             /\ IF ok
                                THEN /\ rules' = add_forwarder_rule(u.id,
                                           s.subreddit, s.sort_type,
                                           IF s.time_filter = Unset
                                           THEN "day" ELSE s.time_filter,
                                           s.frequency_hours, t)
                                     /\ next_rule_id' = next_rule_id + 1
                                     /\ prule' = [prule EXCEPT
                                           !["immediate"] =
                                              [id |-> next_rule_id,
                                               admin_id |-> u.id]]
                                     /\ ppc' = [ppc EXCEPT
                                           !["immediate"] = "fetch"]
                                     /\ session' = [session EXCEPT ![u.id] =
                                           [s EXCEPT !.target_channel = t]]
                                     /\ Answer(u, "created")
                                ELSE /\ Answer(u, "failed")
                                     /\ Pop(u)
                                     /\ UNCHANGED <<rules, next_rule_id,
                                                    prule, ppc>>
                       /\ UNCHANGED <<posts, recent, pending, approved,
                                      prules, pposts, pfile, psent>>
    /\ UNCHANGED outsideChat

\* _create_rule after _execute_rule_immediately has returned (it catches
\* what the check raises): the finally removes the session
FinishCreate(u) ==
    /\ session[u.id].target_channel # Unset
    /\ ppc["immediate"] = "idle"
    /\ Pop(u)
    /\ Answer(u, "checked")
    /\ UNCHANGED <<storeVars, faults, passVars, outsideChat>>

\* handle_callback_query with data "sort_...": the is_admin check, then
\* _handle_sort_selection, which stores the sort type at whatever step the
\* session is
_handle_sort_selection(u, sort) ==
    /\ bpc = "running"
    /\ ~Creating
    /\ IF ~is_admin(u)
       THEN /\ Answer(u, "denied")
            /\ UNCHANGED session
       ELSE IF session[u.id].step = "none"
       THEN /\ Answer(u, "expired")
            /\ UNCHANGED session
       ELSE /\ session' = [session EXCEPT ![u.id] =
                   [@ EXCEPT !.sort_type = sort,
                             !.step = IF sort = "top" THEN "time_filter"
                                      ELSE "frequency"]]
            /\ Answer(u, "prompt")
    /\ UNCHANGED <<storeVars, faults, passVars, outsideChat>>

\* handle_callback_query with data "time_...": the is_admin check, then
\* _handle_time_filter_selection; its answer reads rule_data['sort_type']
\* after the step has been stored, so a session without a sort type is
\* changed and nothing is answered
_handle_time_filter_selection(u, tf) ==
    /\ bpc = "running"
    /\ ~Creating
    /\ IF ~is_admin(u)
       THEN /\ Answer(u, "denied")
            /\ UNCHANGED session
       ELSE IF session[u.id].step = "none"
       THEN /\ Answer(u, "expired")
            /\ UNCHANGED session
       ELSE /\ session' = [session EXCEPT ![u.id] =
                   [@ EXCEPT !.time_filter = tf, !.step = "frequency"]]
            /\ IF session[u.id].sort_type = Unset
               THEN UNCHANGED reply
               ELSE Answer(u, "prompt")
    /\ UNCHANGED <<storeVars, faults, passVars, outsideChat>>

\* Rule authoring through the chat: an admin and a user who is not one type
\* texts and press buttons, stale ones included, in any order; a rule that
\* is created gets its immediate check.
Authors == {u \in Users : u.id \in {"admin1", "guest"}}

NextAuthor ==
    \/ \E u \in Authors : add_rule_command(u)
    \/ \E u \in Authors, t \in Texts : handle_text_input(u, t)
    \/ \E u \in Authors, sort \in SortButtons : _handle_sort_selection(u, sort)
    \/ \E u \in Authors, tf \in TimeButtons :
          _handle_time_filter_selection(u, tf)
    \/ \E u \in Authors : FinishCreate(u)
    \/ FetchRule
    \/ CheckRule("immediate")
    \/ RuleCheckRaises("immediate")
    \/ PostExists("immediate")
    \/ Download("immediate")
    \/ AddPost("immediate")
    \/ SendForApproval("immediate")
    \/ AddPending("immediate")
    \/ TouchRule("immediate")

\* the feed holds an image and the host's clock is UTC
InitAuthor ==
    /\ Init
    /\ media = [p \in Posts |-> "image"]
    /\ tz = 0

SpecAuthor == InitAuthor /\ [][NextAuthor]_vars

\* C34: every rule stored through the authoring chat has a frequency_hours
\* within 1..168, and a text typed at step 'frequency' that is not a number
\* or lies outside that range leaves the session as it is (still at step
\* 'frequency') and the rules table untouched.
BadFrequency(t) ==
    \/ ~IsNumber(t)
    \/ int(t) \notin MinFrequency..MaxFrequency

C34_FrequencyWithinRange ==
    /\ [](\A i \in DOMAIN rules :
             rules[i].frequency_hours \in MinFrequency..MaxFrequency)
    /\ [][\A u \in Authors, t \in Texts :
             (/\ session[u.id].step = "frequency"
              /\ BadFrequency(t)
              /\ handle_text_input(u, t))
             => /\ session' = session
                /\ session'[u.id].step = "frequency"
                /\ UNCHANGED <<rules, next_rule_id>>]_vars

\* a rule has been authored, and in the next session a bad frequency has
\* just been refused
C34_Witness ==
    /\ DOMAIN rules = {1}
    /\ rules[1].frequency_hours = 1
    /\ session["admin1"].step = "frequency"
    /\ session["admin1"].sort_type = "hot"
    /\ reply["admin1"] = "invalid"

\* C40: a step that stores a rule starts from a session at step 'channel'
\* that holds a subreddit, a sort type and a frequency, and the rule stored
\* carries them together with the channel just typed; every text that
\* reaches _create_rule (a well-formed channel at step 'channel') either
\* removes the session in that step or stores the rule, and from then on
\* the session is only removed, which the end of _create_rule does.
Collected(s) ==
    /\ s.step = "channel"
    /\ s.subreddit # Unset
    /\ s.sort_type # Unset
    /\ s.frequency_hours # NoFrequency

C40_RuleOnlyFromCompleteSession ==
    /\ [][next_rule_id' # next_rule_id =>
             \E u \in Authors :
                LET s == session[u.id]
                    r == rules'[next_rule_id]
                IN  /\ Collected(s)
                    /\ r.admin_id = u.id
                    /\ r.subreddit = s.subreddit
                    /\ r.sort_type = s.sort_type
                    /\ r.frequency_hours = s.frequency_hours
                    /\ r.target_channel # Unset
                    /\ r.target_channel = session'[u.id].target_channel]_vars
    /\ [][\A u \in Authors, t \in Texts :
             (/\ session[u.id].step = "channel"
              /\ (t = "@channel" \/ IsNumber(t))
              /\ handle_text_input(u, t))
             => \/ session'[u.id] = NoSession
                \/ /\ next_rule_id' = next_rule_id + 1
                   /\ session'[u.id].target_channel = t]_vars
    /\ [][\A u \in Authors :
             session[u.id].target_channel # Unset
             => \/ session'[u.id] = session[u.id]
                \/ session'[u.id] = NoSession]_vars
    /\ [](\A u \in Authors :
             (session[u.id].target_channel # Unset /\ ppc["immediate"] = "idle")
             => ENABLED FinishCreate(u))

\* an attempt without a subreddit (a stale sort button was pressed at step
\* 'subreddit') has just ended: no rule, no session
C40_FailedAttempt ==
    /\ reply["admin1"] = "error"
    /\ session["admin1"] = NoSession
    /\ rules = <<>>
    /\ next_rule_id = 1

\* a rule authored after a stale time-window button: its session is gone
\* once the immediate check has returned
C40_Witness ==
    /\ reply["admin1"] = "checked"
    /\ session["admin1"] = NoSession
    /\ DOMAIN rules = {1}
    /\ rules[1].sort_type = "hot"
    /\ rules[1].time_filter = "week"

\* C35: a post is forwarded to the target channel at most once for each
\* approval request that was created for it: the channel never holds more
\* messages of a post than approval messages were delivered for it, also
\* when an approval is repeated after approve_post failed or two approvals
\* of one request overlap.
ForwardsOf(p) == {m \in channel_msgs : m.post_id = p}
RequestsFor(p) == {m \in approval_msgs : m.post_id = p}

C35_ForwardedOncePerRequest ==
    \A p \in Posts : Cardinality(ForwardsOf(p)) <= Cardinality(RequestsFor(p))

\* C36: every row of pending_approvals (a request that was created and has
\* not been decided) is returned by get_pending_approval for its
\* message_id, whatever happened to its rule in the meantime.
C36_PendingStaysFindable ==
    \A x \in pending :
        \E row \in get_pending_approval_rows(x.message_id) :
            /\ row.post_id = x.post_id
            /\ row.rule_id = x.rule_id

\* C37: every row of pending_approvals refers to a post whose stored
\* file_path is not NULL.
C37_PendingHasFile ==
    \A x \in pending :
        /\ x.post_id \in DOMAIN posts
        /\ posts[x.post_id].file_path # NoPath

\* C38: a post has a row in approved_posts only if its status is
\* 'approved'; in particular a post with status 'rejected' has none.
C38_ApprovedRecordMeansApproved ==
    \A a \in approved :
        /\ a.post_id \in DOMAIN posts
        /\ posts[a.post_id].status = "approved"

\* ------------------------------------------------- callbacks and the list

\* handle_callback_query with data "approve_..." or "reject_...": the
\* button of approval message m is pressed by u, a member of that chat; a
\* user who is not an admin is answered "Not authorized", an admin's press
\* goes to _handle_post_decision
CallbackDecision(d, u, m, kind) ==
    /\ u.id = m.chat
    /\ IF is_admin(u)
       THEN _handle_post_decision(d, u.id, m, kind)
       ELSE /\ Answer(u, "denied")
            /\ UNCHANGED <<session, storeVars, faults, passVars, outsideChat>>

\* handle_callback_query with data "delete_rule_<i>": the same check, then
\* _handle_rule_deletion
CallbackDeletion(u, i) ==
    IF is_admin(u)
    THEN DeleteRule(i, u.id)
    ELSE /\ Answer(u, "denied")
         /\ UNCHANGED <<session, storeVars, faults, passVars, outsideChat>>

\* The store state of IngestLeaves with one request, owned by any of the
\* users: admins.txt is read once per start (reload_admins has no caller),
\* and the rows and messages of a user who was listed during an earlier run
\* are still there after a restart with a shorter list.
InitAdmit ==
    \E o \in UserIds :
       /\ media \in [Posts -> {"image"}]
       /\ posts = (1 :> [media_type |-> media[1], file_path |-> PathOf(1),
                         status |-> "pending", admin_id |-> "NULL"])
       /\ recent = {}
       /\ rules = (1 :> [RuleRow(1, "hot") EXCEPT !.admin_id = o])
       /\ next_rule_id = 2
       /\ pending = {[post_id |-> 1, admin_id |-> o, rule_id |-> 1,
                      message_id |-> 1]}
       /\ approved = {}
       /\ files = {PathOf(1)}
       /\ approval_msgs = {[message_id |-> 1, chat |-> o, post_id |-> 1]}
       /\ channel_msgs = {}
       /\ now = 0
       /\ tz = 0
       /\ faults = 0
       /\ IdleProcesses

NextAdmit ==
    \/ \E d \in Decisions, u \in Users, m \in approval_msgs,
          kind \in DecisionKinds : CallbackDecision(d, u, m, kind)
    \/ \E u \in Users, i \in 1..MaxRules : CallbackDeletion(u, i)
    \/ \E d \in Decisions : ApproveDeliver(d)
    \/ \E d \in Decisions : ApproveFinalize(d)
    \/ \E d \in Decisions : RejectFinalize(d)
    \/ \E d \in Decisions : Cleanup(d)

SpecAdmit == InitAdmit /\ [][NextAdmit]_vars

\* C39: a decision or a rule deletion submitted by a user who is not on
\* the admin list changes nothing: the step that answers such a user
\* leaves posts, pending approvals, approved records, rules, files and both
\* kinds of messages as they are and starts no callback, no callback ever
\* works for such a user, and a rule only disappears when its owner is on
\* the list.
Listed(u) ==
    \E e \in _admins :
        \/ ~e.at /\ e.text = u.id
        \/ e.at /\ u.username # "NULL" /\ e.text = u.username

Unlisted == {u.id : u \in {v \in Users : ~Listed(v)}}

C39_UnlistedActorChangesNothing ==
    /\ [](\A d \in Decisions : ddata[d].actor \notin Unlisted)
    /\ [][(\E i \in Unlisted : reply'[i] # reply[i])
             => UNCHANGED <<storeVars, files, approval_msgs, channel_msgs,
                            decVars>>]_vars
    /\ [][\A i \in DOMAIN rules :
             i \notin DOMAIN rules' => rules[i].admin_id \notin Unlisted]_vars

\* the user who is not listed has pressed a button of the request in their
\* chat and was turned away; the request, the rule and the post are as
\* they were
C39_Witness ==
    /\ reply["guest"] = "denied"
    /\ rules[1].admin_id = "guest"
    /\ \E x \in pending : x.admin_id = "guest"
    /\ posts[1].status = "pending"
    /\ channel_msgs = {}
====
